---- MODULE Spec2Model ----
(***************************************************************************)
(* Model of fishviz's data_parser.py: load_gtype, load_data,               *)
(* load_perl_processed_activity and resample.                              *)
(*                                                                         *)
(* A DataFrame is a sequence of row records; the pandas index after        *)
(* reset_index(drop=True) is the 0-based position in the sequence, so      *)
(* row i of the code is t[i + 1] here.  Exceptions raised by pandas/numpy  *)
(* end a call in a pc value naming the exception.                          *)
(***************************************************************************)
EXTENDS Integers, Sequences, FiniteSets, TLC

VARIABLES pc, df, ind_win, inds, df_resampled, df_again, out_is_df,
          gfile, df_gt,
          afile, lights_on, lights_off, day_in_the_life, df_a,
          bfile, df_b

vars == <<pc, df, ind_win, inds, df_resampled, df_again, out_is_df,
          gfile, df_gt,
          afile, lights_on, lights_off, day_in_the_life, df_a,
          bfile, df_b>>

resampleVars == <<df, ind_win, inds, df_resampled, df_again, out_is_df>>
gtypeVars == <<gfile, df_gt>>
loadVars == <<afile, lights_on, lights_off, day_in_the_life, df_a>>
perlVars == <<bfile, df_b>>

(* Bounds of the explored inputs. *)
MaxFish == 3
MaxRows == 6
MaxWin == 3

(* Value of a variable that a specification does not use. *)
None == <<>>

(* Marker of a rolling-window cell with fewer than window observations;    *)
(* activity is a non-negative duration, so no real sum equals it.          *)
NaN == 0 - 1

RECURSIVE Pow2(_)
Pow2(n) == IF n = 0 THEN 1 ELSE 2 * Pow2(n - 1)

(***************************************************************************)
(* DataFrame helpers.                                                      *)
(***************************************************************************)

(* RowLeq with the zeit key compared the wrong way round. *)
RowLeqDescending(a, b) == \/ a.fish < b.fish
                          \/ (a.fish = b.fish /\ a.zeit >= b.zeit)

(* Row order of sort_values(by=['fish', 'zeit']). *)
RowLeq(a, b) == \/ a.fish < b.fish
                \/ (a.fish = b.fish /\ a.zeit <= b.zeit)

(* Position of r in the sorted sequence s, after every row not above it    *)
(* (the multi-key sort of pandas is a stable lexsort).                     *)
RECURSIVE Insert(_, _)
Insert(s, r) ==
    IF s = <<>> THEN <<r>>
    ELSE IF RowLeq(s[Len(s)], r) THEN Append(s, r)
    ELSE Append(Insert(SubSeq(s, 1, Len(s) - 1), r), s[Len(s)])

RECURSIVE SortValues(_)
SortValues(t) ==
    IF t = <<>> THEN <<>>
    ELSE Insert(SortValues(SubSeq(t, 1, Len(t) - 1)), t[Len(t)])

(* df.fish.unique(): the fish ids in order of first appearance. *)
RECURSIVE Unique(_)
Unique(t) ==
    IF t = <<>> THEN <<>>
    ELSE LET u == Unique(SubSeq(t, 1, Len(t) - 1))
             f == t[Len(t)].fish
         IN  IF \E i \in 1..Len(u) : u[i] = f THEN u ELSE Append(u, f)

(* np.sum(df.fish == fish) *)
CountFish(t, f) == Cardinality({i \in 1..Len(t) : t[i].fish = f})

(* df.loc[df.fish == fish, :].index[0] and .index[-1], 0-based. *)
FirstIndex(t, f) ==
    (CHOOSE i \in 1..Len(t) :
        t[i].fish = f /\ \A j \in 1..(i - 1) : t[j].fish # f) - 1
LastIndex(t, f) ==
    (CHOOSE i \in 1..Len(t) :
        t[i].fish = f /\ \A j \in (i + 1)..Len(t) : t[j].fish # f) - 1

(* np.arange(start, stop, step) for step > 0. *)
RECURSIVE Arange(_, _, _)
Arange(start, stop, step) ==
    IF start >= stop THEN <<>>
    ELSE <<start>> \o Arange(start + step, stop, step)

(* list(range(k)) * n *)
RECURSIVE RangeTimes(_, _)
RangeTimes(k, n) ==
    IF n = 0 THEN <<>>
    ELSE [i \in 1..k |-> i - 1] \o RangeTimes(k, n - 1)

RECURSIVE SumAct(_, _, _)
SumAct(t, lo, hi) ==
    IF lo > hi THEN 0 ELSE t[hi + 1].activity + SumAct(t, lo, hi - 1)

(***************************************************************************)
(* resample(df, ind_win)                                                   *)
(***************************************************************************)

(* df_gb.rolling(window=ind_win).sum() at index i of the sorted table: the *)
(* sum over the last ind_win rows of the same fish up to i, NaN while the  *)
(* fish has fewer than ind_win rows up to i.                               *)
Rolling(t, w, i) ==
    LET g == {j \in 0..i : t[j + 1].fish = t[i + 1].fish}
    IN  IF Cardinality(g) < w THEN NaN
        ELSE LET lo == CHOOSE j \in g : Cardinality({k \in g : k >= j}) = w
             IN  SumAct(t, lo, i)

(* np.where(np.diff(light.values.astype(int)))[0] for the first fish: the  *)
(* positions whose successor has the other light value.                    *)
Transitions(t) ==
    LET f == Unique(t)[1]
        first == FirstIndex(t, f)
        n == CountFish(t, f)
    IN  {i \in 0..(n - 2) : t[first + i + 1].light # t[first + i + 2].light}

SetMin(S) == CHOOSE x \in S : \A y \in S : x <= y

(* StartInd without the leading window. *)
StartIndNoWindow(w, t0) == t0 % w

(* StartInd without the offset of the transition. *)
StartIndNoOffset(w, t0) == w

(* start_ind = ind_win + np.where(...)[0][0] % ind_win *)
StartInd(w, t0) == w + (t0 % w)

(* The loop building inds over df_in.fish.unique(). *)
RECURSIVE IndsFrom(_, _, _, _, _)
IndsFrom(t, u, k, start_ind, w) ==
    IF k > Len(u) THEN <<>>
    ELSE Arange(FirstIndex(t, u[k]) + start_ind, LastIndex(t, u[k]), w)
            \o IndsFrom(t, u, k + 1, start_ind, w)

(* zeit_ind of the pass-through branch. *)
ZeitIndSame(df_in, n_fish) ==
    RangeTimes(CountFish(df_in, Unique(df_in)[1]), n_fish)

(* zeit_ind of the resampled table. *)
ZeitIndResampled(keep, n_fish) == RangeTimes(Len(keep) \div n_fish, n_fish)

Raised(e) == [pc |-> e, inds |-> None, table |-> None]

(* sort_values(inplace=True) on the table passed in instead of on a copy:   *)
(* the working table is the caller's object.                               *)
WorkingInPlace(t) == [table |-> SortValues(t), shared |-> TRUE]

(* df_in = df.copy(); df_in = df_in.sort_values(...).reset_index(drop=True) *)
(* The working table is a new object holding the sorted rows; shared tells *)
(* whether it is the object the caller passed in.                          *)
WorkingCopy(t) == [table |-> SortValues(t), shared |-> FALSE]

Resample(t, w) ==
    LET df_in == WorkingCopy(t).table
        u == Unique(df_in)
        n_fish == Len(u)
    IN  IF n_fish = 0 THEN Raised("IndexError")
        ELSE IF w = 1 THEN
            LET zeit_ind == ZeitIndSame(df_in, n_fish)
            IN  IF Len(zeit_ind) # Len(df_in) THEN Raised("ValueError")
                ELSE [pc |-> "returned", inds |-> None,
                      table |-> [i \in 1..Len(df_in) |->
                          [df_in[i] EXCEPT !.zeit_ind = zeit_ind[i]]]]
        ELSE IF Transitions(df_in) = {} THEN Raised("IndexError")
        ELSE
            LET start_ind == StartInd(w, SetMin(Transitions(df_in)))
                keep == IndsFrom(df_in, u, 1, start_ind, w)
                zeit_ind == ZeitIndResampled(keep, n_fish)
            IN  IF Len(zeit_ind) # Len(keep) THEN Raised("ValueError")
                ELSE [pc |-> "returned", inds |-> keep,
                      table |-> [k \in 1..Len(keep) |->
                          [fish |-> df_in[keep[k] + 1].fish,
                           genotype |-> df_in[keep[k] + 1].genotype,
                           day |-> df_in[keep[k] + 1].day,
                           light |-> df_in[keep[k] + 1].light,
                           zeit |-> df_in[keep[k] + 1].zeit,
                           activity |-> Rolling(df_in, w, keep[k]),
                           zeit_ind |-> zeit_ind[k]]]]

(* Rows of the caller's table once resample(t, w) has ended: its own rows  *)
(* unless the working table is the caller's object, which the call sorts   *)
(* and, in the pass-through branch, re-indexes.                            *)
ArgAfter(t, w) ==
    IF ~WorkingCopy(t).shared THEN t
    ELSE IF w = 1 /\ Resample(t, w).pc = "returned" THEN Resample(t, w).table
    ELSE SortValues(t)

(* The object resample(t, w) returns is the object it was given: only the  *)
(* pass-through branch returns the working table itself (return df_in),    *)
(* the other branch returns the table built by .loc[...].reset_index().    *)
ReturnsArg(t, w) ==
    WorkingCopy(t).shared /\ w = 1 /\ Resample(t, w).pc = "returned"

(***************************************************************************)
(* Input tables of the resampler: fish 1..nf, fish f with n[f] rows on the *)
(* grid zeit = 0, 1, ..., the light flipping once after position flip.     *)
(***************************************************************************)
TidyRow(f, p, flip, lit) ==
    [fish |-> f,
     genotype |-> IF f % 2 = 1 THEN "wt" ELSE "mut",
     day |-> IF p > flip /\ ~lit THEN 2 ELSE 1,
     light |-> IF p <= flip THEN lit ELSE ~lit,
     zeit |-> p,
     activity |-> Pow2(p) + f,
     zeit_ind |-> p]

RECURSIVE TidyTable(_, _, _, _)
TidyTable(n, f, flip, lit) ==
    IF f = 0 THEN <<>>
    ELSE TidyTable(n, f - 1, flip, lit)
            \o [q \in 1..n[f] |-> TidyRow(f, q - 1, flip, lit)]

Reverse(s) == [i \in 1..Len(s) |-> s[Len(s) + 1 - i]]

InitResample ==
    /\ pc = "resample"
    /\ \E nf \in 1..MaxFish : \E n \in [1..nf -> 1..MaxRows] :
       \E flip \in 0..(MaxRows - 1) : \E lit \in BOOLEAN :
       \E rev \in BOOLEAN :
          df = IF rev THEN Reverse(TidyTable(n, nf, flip, lit))
                      ELSE TidyTable(n, nf, flip, lit)
    /\ ind_win \in 1..MaxWin
    /\ inds = None /\ df_resampled = None /\ df_again = None
    /\ out_is_df = FALSE
    /\ gfile = None /\ df_gt = None
    /\ afile = None /\ lights_on = None /\ lights_off = None
    /\ day_in_the_life = None /\ df_a = None
    /\ bfile = None /\ df_b = None

(* df_resampled = resample(df, ind_win) *)
ResampleCall ==
    /\ pc = "resample"
    /\ LET r == Resample(df, ind_win)
       IN  /\ pc' = r.pc
           /\ inds' = r.inds
           /\ df_resampled' = r.table
    /\ df' = ArgAfter(df, ind_win)
    /\ out_is_df' = ReturnsArg(df, ind_win)
    /\ UNCHANGED <<ind_win, df_again, gtypeVars, loadVars, perlVars>>

(* resample(df_resampled, 1) on the table a first call returned. *)
ResampleAgain ==
    /\ pc = "returned"
    /\ LET r == Resample(df_resampled, 1)
       IN  /\ pc' = IF r.pc = "returned" THEN "again" ELSE "again" \o r.pc
           /\ df_again' = r.table
    /\ df_resampled' = ArgAfter(df_resampled, 1)
    /\ out_is_df' = ReturnsArg(df_resampled, 1)
    /\ UNCHANGED <<df, ind_win, inds, gtypeVars, loadVars, perlVars>>

NextResample == ResampleCall \/ ResampleAgain

SpecResample == InitResample /\ [][NextResample]_vars

(***************************************************************************)
(* Properties of resample.                                                 *)
(***************************************************************************)

(* The first call returned a table (it stays in df_resampled afterwards). *)
Returned == pc \in {"returned", "again", "againValueError", "againIndexError"}

(* Number of earlier rows of the same fish. *)
Rank(t, i) == Cardinality({j \in 1..(i - 1) : t[j].fish = t[i].fish})

FishOf(t) == {t[i].fish : i \in 1..Len(t)}

(* A row without its zeit_ind. *)
Strip(r) == [fish |-> r.fish, genotype |-> r.genotype, day |-> r.day,
             light |-> r.light, zeit |-> r.zeit, activity |-> r.activity]

Occurrences(t, r) == Cardinality({i \in 1..Len(t) : Strip(t[i]) = r})

(* Position of the source row of output row k within its own fish. *)
SourcePos(k) ==
    inds[k] - FirstIndex(SortValues(df), df_resampled[k].fish)

(* C1: in the table resample returns, the zeit_ind of each fish are        *)
(* 0..count-1 in row order: every row's zeit_ind is the number of earlier  *)
(* rows of its fish.                                                       *)
C1_ZeitIndContiguous ==
    Returned =>
        \A i \in 1..Len(df_resampled) :
            df_resampled[i].zeit_ind = Rank(df_resampled, i)

(* C2: for ind_win > 1 every returned row carries the sum of activity over *)
(* the ind_win consecutive sorted input rows ending at its source row, all *)
(* of them rows of the same fish.                                          *)
C2_CompleteWindowSum ==
    (Returned /\ ind_win > 1) =>
        \A k \in 1..Len(df_resampled) :
            LET s == SortValues(df)
                hi == inds[k]
                lo == inds[k] - ind_win + 1
            IN  /\ lo >= 0
                /\ \A j \in lo..hi : s[j + 1].fish = df_resampled[k].fish
                /\ s[hi + 1].zeit = df_resampled[k].zeit
                /\ df_resampled[k].activity = SumAct(s, lo, hi)

C2_Witness ==
    /\ Returned /\ ind_win > 1
    /\ Len(df_resampled) >= 4
    /\ Cardinality(FishOf(df_resampled)) >= 2

(* C3: for ind_win > 1, with t the first light transition of the first     *)
(* fish, every returned row has a source position p with                   *)
(* (p - t) mod ind_win = 0, and its window p-ind_win+1..p does not hold    *)
(* both row t and row t+1.                                                 *)
C3_AlignedToTransition ==
    (Returned /\ ind_win > 1) =>
        \A k \in 1..Len(df_resampled) :
            LET t == SetMin(Transitions(SortValues(df)))
                p == SourcePos(k)
            IN  /\ (p - t) % ind_win = 0
                /\ ~(p - ind_win + 1 <= t /\ t + 1 <= p)

C3_Witness ==
    /\ Returned /\ ind_win > 1
    /\ Len(df_resampled) >= 2
    /\ Cardinality(FishOf(df_resampled)) >= 2
    /\ SetMin(Transitions(SortValues(df))) % ind_win # 0

C7_ResampleOneIdempotent ==
    (pc \in {"again", "againValueError", "againIndexError"}) =>
        (pc = "again" /\ df_again = df_resampled)

(***************************************************************************)
(* load_gtype(fname)                                                       *)
(*                                                                         *)
(* A genotype file is a sequence of columns, each with the label of the    *)
(* second header row (a sequence of characters) and the fish ids of its    *)
(* non-empty cells.                                                        *)
(***************************************************************************)
MaxHeaderLen == 7

Chars == {"a", " ", "n", "=", "1"}
Digits == {"1"}
Letters == {"a", "n"}

(* col.rfind(' '): 0-based index of the last space, -1 without one. *)
RFind(c) ==
    IF \E i \in 1..Len(c) : c[i] = " "
    THEN (CHOOSE i \in 1..Len(c) :
            c[i] = " " /\ \A j \in (i + 1)..Len(c) : c[j] # " ") - 1
    ELSE 0 - 1

(* col[:col.rfind(' ')] if col.rfind(' ') > 0 else col *)
TrimHeader(c) == IF RFind(c) > 0 THEN SubSeq(c, 1, RFind(c)) ELSE c

(* pd.melt(...).dropna(): one row per non-empty cell, column by column. *)
RECURSIVE Melt(_, _)
Melt(g, k) ==
    IF k > Len(g) THEN <<>>
    ELSE [i \in 1..Len(g[k].fish) |->
             [genotype |-> TrimHeader(g[k].header), fish |-> g[k].fish[i]]]
            \o Melt(g, k + 1)

LoadGtype(g) == Melt(g, 1)

(* '<name> n=<count>': a non-empty name, a blank, "n=" and digits. *)
AnnotatedAt(h, k) ==
    /\ h[k] = " " /\ h[k + 1] = "n" /\ h[k + 2] = "="
    /\ Len(h) >= k + 3
    /\ \A j \in (k + 3)..Len(h) : h[j] \in Digits

Annotated(h) == \E k \in 2..(Len(h) - 3) : AnnotatedAt(h, k)

(* A genotype name: letters and single or multiple inner blanks. *)
IsName(h) ==
    /\ Len(h) >= 1
    /\ \A i \in 1..Len(h) : h[i] \in Letters \cup {" "}
    /\ h[1] # " " /\ h[Len(h)] # " "

(* The name a header stands for. *)
BareName(h) ==
    IF Annotated(h)
    THEN SubSeq(h, 1, (CHOOSE k \in 2..(Len(h) - 3) : AnnotatedAt(h, k)) - 1)
    ELSE h

(* Headers of a genotype file: a name, or a name with its count. *)
Headers ==
    {h \in UNION {[1..n -> Chars] : n \in 1..MaxHeaderLen} :
        IsName(BareName(h))}

InitGtype ==
    /\ pc = "load_gtype"
    /\ \E h \in Headers : gfile = <<[header |-> h, fish |-> <<1, 2>>]>>
    /\ df_gt = None
    /\ df = None /\ ind_win = None /\ inds = None
    /\ df_resampled = None /\ df_again = None /\ out_is_df = FALSE
    /\ afile = None /\ lights_on = None /\ lights_off = None
    /\ day_in_the_life = None /\ df_a = None
    /\ bfile = None /\ df_b = None

(* df_gt = load_gtype(gtype_file) *)
LoadGtypeCall ==
    /\ pc = "load_gtype"
    /\ df_gt' = LoadGtype(gfile)
    /\ pc' = "gtype_loaded"
    /\ UNCHANGED <<gfile, resampleVars, loadVars, perlVars>>

NextGtype == LoadGtypeCall

SpecGtype == InitGtype /\ [][NextGtype]_vars

(* C10: every genotype label load_gtype returns is the bare name of its    *)
(* header: the part before " n=<count>" when the header ends in one, the   *)
(* whole header otherwise.                                                 *)
C10_BareGenotypeName ==
    pc = "gtype_loaded" =>
        \A i \in 1..Len(df_gt) : df_gt[i].genotype = BareName(gfile[1].header)

(***************************************************************************)
(* load_data(fname, genotype_fname, lights_on, lights_off,                 *)
(*           day_in_the_life)                                              *)
(*                                                                         *)
(* A row of the activity file has the well number of its location, its     *)
(* stdate and sttime as whole hours since 00:00 of a reference date, and   *)
(* middur.  Times of day are whole hours 0..23.                            *)
(***************************************************************************)
HoursPerDay == 24

(* Days of the months of 1970. *)
MonthLen == <<31, 28, 31, 30, 31, 30, 31, 31, 30, 31, 30, 31>>

RECURSIVE DayInMonth(_, _)
DayInMonth(d, m) ==
    IF d < MonthLen[m] THEN d + 1
    ELSE DayInMonth(d - MonthLen[m], (m % 12) + 1)

(* pd.DatetimeIndex(<timedelta>).day: the difference is read as a time     *)
(* since 1970-01-01 00:00 and the day of the month of that date is taken   *)
(* (December 1969 for a negative difference).                              *)
DayAttribute(delta) ==
    LET d == delta \div HoursPerDay
    IN  IF d < 0 THEN 31 + d + 1 ELSE DayInMonth(d, 1)

DigitValue(c) == CASE c = "0" -> 0 [] c = "1" -> 1 [] c = "2" -> 2
                   [] c = "3" -> 3 [] c = "4" -> 4 [] c = "5" -> 5
                   [] c = "6" -> 6 [] c = "7" -> 7 [] c = "8" -> 8
                   [] c = "9" -> 9

(* int(<digits>) *)
RECURSIVE ToInt(_)
ToInt(c) ==
    IF c = <<>> THEN 0
    ELSE 10 * ToInt(SubSeq(c, 1, Len(c) - 1)) + DigitValue(c[Len(c)])

IsDigit(c) == c \in {"0", "1", "2", "3", "4", "5", "6", "7", "8", "9"}

(* str.extract('(\d+)').astype(int): the first run of digits, as a number. *)
WellNumber(loc) ==
    LET first == CHOOSE i \in 1..Len(loc) :
                    IsDigit(loc[i]) /\ \A j \in 1..(i - 1) : ~IsDigit(loc[j])
        last == CHOOSE i \in first..Len(loc) :
                    /\ \A j \in first..i : IsDigit(loc[j])
                    /\ (i = Len(loc) \/ ~IsDigit(loc[i + 1]))
    IN  ToInt(SubSeq(loc, first, last))

(* df.loc[df['fish'].isin(df_gt['fish']), :] *)
KeepGenotyped(t, gt) ==
    SelectSeq(t, LAMBDA r : \E i \in 1..Len(gt) : gt[i].fish = r.fish)

(* FishLookup taking the first genotype of the whole table. *)
FishLookupFirstRow(gt, fish) == gt[1].genotype

(* df_gt.loc[df_gt['fish'] == fish, 'genotype'].values[0] *)
FishLookup(gt, fish) ==
    gt[CHOOSE i \in 1..Len(gt) :
          gt[i].fish = fish /\ \A j \in 1..(i - 1) : gt[j].fish # fish].genotype

(* pd.DatetimeIndex(df['time']).min() *)
TMin(t) == CHOOSE x \in {t[i].time : i \in 1..Len(t)} :
               \A i \in 1..Len(t) : x <= t[i].time

(* datetime.datetime.combine(t_min.date(), lights_on) *)
Anchor(t_min, on) == (t_min \div HoursPerDay) * HoursPerDay + on

(* The day column. *)
DayNumber(time, t_min, on, dil) ==
    DayAttribute(time - Anchor(t_min, on)) + dil - 1

(* The light column. *)
Light(time, on, off) ==
    (time % HoursPerDay) >= on /\ (time % HoursPerDay) < off

(* SetZeitInd numbering the rows of the whole table. *)
SetZeitIndWholeTable(t, u, k) ==
    [i \in 1..Len(t) |-> [t[i] EXCEPT !.zeit_ind = i - 1]]

(* The loop over df['fish'].unique() that fills zeit_ind: the rows of fish *)
(* u[k] receive np.arange of their number.                                 *)
RECURSIVE SetZeitInd(_, _, _)
SetZeitInd(t, u, k) ==
    IF k > Len(u) THEN t
    ELSE LET done == SetZeitInd(t, u, k + 1)
             rows == {i \in 1..Len(t) : t[i].fish = u[k]}
             arange == [j \in 0..(Cardinality(rows) - 1) |-> j]
         IN  [i \in 1..Len(t) |->
                IF i \in rows
                THEN [done[i] EXCEPT !.zeit_ind =
                         arange[Cardinality({j \in rows : j < i})]]
                ELSE done[i]]

LoadData(a, g, on, off, dil) ==
    LET gt == LoadGtype(g)
        read == [i \in 1..Len(a) |->
                    [fish |-> WellNumber(a[i].location),
                     time |-> a[i].time, middur |-> a[i].middur]]
        kept == KeepGenotyped(read, gt)
    IN  IF kept = <<>> THEN [pc |-> "LoadError", table |-> None]
        ELSE
          LET t_min == TMin(kept)
              cols == [i \in 1..Len(kept) |->
                         [time |-> kept[i].time,
                          fish |-> kept[i].fish,
                          genotype |-> FishLookup(gt, kept[i].fish),
                          zeit |-> kept[i].time - t_min,
                          zeit_ind |-> 0,
                          light |-> Light(kept[i].time, on, off),
                          day |-> DayNumber(kept[i].time, t_min, on, dil),
                          activity |-> kept[i].middur]]
              sorted == SortValues(cols)
          IN  [pc |-> "loaded",
               table |-> SetZeitInd(sorted, Unique(sorted), 1)]

(***************************************************************************)
(* load_perl_processed_activity(activity_file, df_gt)                      *)
(*                                                                         *)
(* The file, after its header is flattened and the Unnamed, start and end  *)
(* columns are dropped, has a CLOCK column and one column per fish, named  *)
(* FISH<id>: cols lists those names in file order, each row has its CLOCK  *)
(* (whole hours) and one cell per fish column.                             *)
(***************************************************************************)
LightThreshold == 14

(* col.lstrip('FISH'): drops leading characters among F, I, S, H. *)
RECURSIVE LStripFISH(_)
LStripFISH(c) ==
    IF c # <<>> /\ c[1] \in {"F", "I", "S", "H"}
    THEN LStripFISH(SubSeq(c, 2, Len(c)))
    ELSE c

FishId(c) == ToInt(LStripFISH(c))

(* Fish columns left after the columns without a genotype are dropped. *)
KeepColumns(cols, gt) ==
    {k \in 1..Len(cols) : \E i \in 1..Len(gt) : gt[i].fish = FishId(cols[k])}

(* df['light'] = df.CLOCK < 14.0 *)
LightB(rows) == [i \in 1..Len(rows) |-> rows[i].CLOCK < LightThreshold]

(* np.where(np.diff(light.astype(int)) == 1)[0], ascending, 0-based. *)
RECURSIVE DarkToLight(_, _)
DarkToLight(light, i) ==
    IF i + 2 > Len(light) THEN <<>>
    ELSE (IF ~light[i + 1] /\ light[i + 2] THEN <<i>> ELSE <<>>)
            \o DarkToLight(light, i + 1)

(* day[lo:hi] = v *)
SliceSet(day, lo, hi, v) ==
    [j \in 1..Len(day) |-> IF j - 1 >= lo /\ j - 1 < hi THEN v ELSE day[j]]

(* for i in range(len(dark_to_light) - 1): the slice between transition i  *)
(* and transition i+1 gets i + 1 (i here is the 1-based loop counter).     *)
RECURSIVE DayLoop(_, _, _)
DayLoop(day, d, i) ==
    IF i > Len(d) - 1 THEN day
    ELSE DayLoop(SliceSet(day, d[i] + 1, d[i + 1] + 1, i), d, i + 1)

(* The day array once the loop and the last assignment have run. *)
DayB(light, d) ==
    SliceSet(DayLoop([j \in 1..Len(light) |-> 0], d, 1),
             d[Len(d)] + 1, Len(light), Len(d))

(* df_gt.genotype[df_gt.fish == fish_id].iloc[0] *)
GenotypeOf(gt, fish_id) == FishLookup(gt, fish_id)

(* pd.melt: the kept fish columns one after the other, each with every row. *)
RECURSIVE MeltB(_, _, _, _, _, _)
MeltB(b, gt, keep, light, day, k) ==
    IF k > Len(b.cols) THEN <<>>
    ELSE (IF k \in keep
          THEN [i \in 1..Len(b.rows) |->
                   [CLOCK |-> b.rows[i].CLOCK,
                    light |-> light[i],
                    day |-> day[i],
                    zeit |-> HoursPerDay * day[i] + b.rows[i].CLOCK,
                    genotype |-> GenotypeOf(gt, FishId(b.cols[k])),
                    fish |-> FishId(b.cols[k]),
                    activity |-> b.rows[i].cells[k]]]
          ELSE <<>>)
            \o MeltB(b, gt, keep, light, day, k + 1)

LoadPerl(b, gt) ==
    LET keep == KeepColumns(b.cols, gt)
        light == LightB(b.rows)
        d == DarkToLight(light, 0)
    IN  IF d = <<>> THEN [pc |-> "IndexError", table |-> None]
        ELSE [pc |-> "loaded",
              table |-> MeltB(b, gt, keep, light, DayB(light, d), 1)]

(***************************************************************************)
(* The loaders as main() runs them: load_data on a standard file, or       *)
(* load_gtype followed by load_perl_processed_activity.                    *)
(***************************************************************************)
MaxWell == 3
MaxBins == 3
MaxBinsB == 5

DigitChar == <<"1", "2", "3", "4", "5", "6", "7", "8", "9">>

RECURSIVE SeqOfSet(_)
SeqOfSet(S) ==
    IF S = {} THEN <<>>
    ELSE LET m == SetMin(S) IN <<m>> \o SeqOfSet(S \ {m})

(* A genotype file assigning the wells of G: odd wells under the first     *)
(* header, even wells under the second.                                    *)
GenotypeFile(G) ==
    <<[header |-> <<"w", "t", " ", "n", "=", "2">>,
       fish |-> SeqOfSet({w \in G : w % 2 = 1})],
      [header |-> <<"m", "u", "t">>,
       fish |-> SeqOfSet({w \in G : w % 2 = 0})]>>

(* A standard activity file: time bins start, start+step, ..., and in bin  *)
(* i one row for every well that has more than i rows.                     *)
RECURSIVE ActivityFile(_, _, _, _)
ActivityFile(n, start, step, i) ==
    IF i >= MaxBins THEN <<>>
    ELSE LET wells == SeqOfSet({w \in DOMAIN n : n[w] > i})
         IN  [k \in 1..Len(wells) |->
                 [location |-> <<"c", DigitChar[wells[k]]>>,
                  time |-> start + i * step,
                  middur |-> i + wells[k]]]
                \o ActivityFile(n, start, step, i + 1)

StartHours == {8, 23}
Steps == {0, 1, 24, 372}
LightsOn == {7, 9}
LightsOff == {8, 23}
DaysInTheLife == {1, 5}

(* A pre-processed activity file with fish columns FISH1.., nb rows and    *)
(* CLOCK advancing by step hours from start.                               *)
PerlFile(nb, start, step) ==
    [cols |-> [w \in 1..MaxWell |-> <<"F", "I", "S", "H", DigitChar[w]>>],
     rows |-> [i \in 1..nb |->
                 [CLOCK |-> (start + (i - 1) * step) % HoursPerDay,
                  cells |-> [w \in 1..MaxWell |-> i + w]]]]

ClockStarts == {0, 13, 14, 20}
ClockSteps == {1, 5, 12}

InitLoad ==
    /\ \E G \in SUBSET (1..MaxWell) : gfile = GenotypeFile(G)
    /\ \/ /\ pc = "load_data"
          /\ \E n \in [1..MaxWell -> 0..MaxBins] :
             \E start \in StartHours : \E step \in Steps :
                afile = ActivityFile(n, start, step, 0)
          /\ lights_on \in LightsOn
          /\ lights_off \in LightsOff
          /\ day_in_the_life \in DaysInTheLife
          /\ bfile = None
       \/ /\ pc = "load_gtype"
          /\ \E nb \in 1..MaxBinsB :
             \E start \in ClockStarts : \E step \in ClockSteps :
                bfile = PerlFile(nb, start, step)
          /\ afile = None /\ lights_on = None /\ lights_off = None
          /\ day_in_the_life = None
    /\ df_gt = None /\ df_a = None /\ df_b = None
    /\ df = None /\ ind_win = None /\ inds = None
    /\ df_resampled = None /\ df_again = None /\ out_is_df = FALSE

(* df = load_data(activity_file, gtype_file, lights_on, lights_off,        *)
(*                day_in_the_life)                                         *)
LoadDataCall ==
    /\ pc = "load_data"
    /\ LET r == LoadData(afile, gfile, lights_on, lights_off,
                         day_in_the_life)
       IN  /\ pc' = IF r.pc = "loaded" THEN "loaded_a" ELSE r.pc
           /\ df_a' = r.table
    /\ UNCHANGED <<afile, lights_on, lights_off, day_in_the_life,
                   gtypeVars, resampleVars, perlVars>>

(* df = load_perl_processed_activity(activity_file, df_gt) *)
LoadPerlCall ==
    /\ pc = "gtype_loaded"
    /\ LET r == LoadPerl(bfile, df_gt)
       IN  /\ pc' = IF r.pc = "loaded" THEN "loaded_b" ELSE r.pc
           /\ df_b' = r.table
    /\ UNCHANGED <<bfile, gtypeVars, resampleVars, loadVars>>

NextLoad == LoadDataCall \/ LoadGtypeCall \/ LoadPerlCall

SpecLoad == InitLoad /\ [][NextLoad]_vars

(***************************************************************************)
(* Properties of the loaders.                                              *)
(***************************************************************************)

(* Every row of t has a fish of the genotype table gt, with a genotype gt  *)
(* records for it.                                                         *)
Joined(t, gt) ==
    \A i \in 1..Len(t) :
        \E k \in 1..Len(gt) :
            gt[k].fish = t[i].fish /\ gt[k].genotype = t[i].genotype

(* C4: in the table load_data returns, day does not decrease along         *)
(* increasing zeit within a fish.                                          *)
C4_DayMonotoneA ==
    pc = "loaded_a" =>
        \A i, j \in 1..Len(df_a) :
            (df_a[i].fish = df_a[j].fish /\ df_a[i].zeit < df_a[j].zeit)
                => df_a[i].day <= df_a[j].day

(* C5: every fish of a loader's output is in the genotype table with the   *)
(* genotype of its row, for load_data and load_perl_processed_activity, so *)
(* no row of a fish outside the genotype table is returned.                *)
C5_JoinedToGenotypes ==
    /\ pc = "loaded_a" => Joined(df_a, LoadGtype(gfile))
    /\ pc = "loaded_b" => Joined(df_b, LoadGtype(gfile))

C5_Witness ==
    /\ pc = "loaded_a"
    /\ \E i \in 1..Len(afile) :
          \A k \in 1..Len(df_a) : df_a[k].fish # WellNumber(afile[i].location)
    /\ \E i, j \in 1..Len(df_a) : df_a[i].genotype # df_a[j].genotype

(* C8: the table load_data returns is grouped by fish, sorted by zeit      *)
(* within a fish, and the zeit_ind of a fish are 0..count-1 in that order. *)
C8_SortedAndIndexedA ==
    pc = "loaded_a" =>
        /\ \A i, j \in 1..Len(df_a) :
              i < j => \/ df_a[i].fish < df_a[j].fish
                       \/ /\ df_a[i].fish = df_a[j].fish
                          /\ df_a[i].zeit <= df_a[j].zeit
        /\ \A i \in 1..Len(df_a) : df_a[i].zeit_ind = Rank(df_a, i)

C8_Witness ==
    /\ pc = "loaded_a"
    /\ \E f, g \in FishOf(df_a) : CountFish(df_a, f) > CountFish(df_a, g)
    /\ \E i, j \in 1..Len(df_a) :
          i < j /\ df_a[i].fish = df_a[j].fish /\ df_a[i].zeit = df_a[j].zeit

(* C9: the day of a row is day_in_the_life plus the number of whole        *)
(* 24-hour intervals from lights_on of the first observed date to the row  *)
(* (minus one interval for a row before that lights_on).                   *)
C9_DayAnchoredToLightsOn ==
    pc = "loaded_a" =>
        \A i \in 1..Len(df_a) :
            df_a[i].day = day_in_the_life
                + ((df_a[i].time - Anchor(TMin(df_a), lights_on))
                      \div HoursPerDay)

(***************************************************************************)
(* Further properties of resample and of the loaders.                      *)
(***************************************************************************)

(* The call of resample on df has ended, with a table or an exception. *)
ResampleEnded == pc # "resample"

(* C11: resample raises an error and returns no table whenever ind_win is  *)
(* larger than the number of rows of some fish of its input.               *)
C11_InsufficientDataRaises ==
    (ResampleEnded /\ \E f \in FishOf(df) : CountFish(df, f) < ind_win)
        => ~Returned

(* Positions of the sorted input, counted from the first row of fish f,    *)
(* whose rows resample kept.                                               *)
KeptPositions(f) ==
    {inds[k] - FirstIndex(SortValues(df), f) :
        k \in {j \in 1..Len(inds) : df_resampled[j].fish = f}}

(* C15: for ind_win > 1 the rows kept for a fish with n rows are the       *)
(* positions s, s + ind_win, s + 2*ind_win, ... up to and including n - 1, *)
(* with s = ind_win + (t mod ind_win) and t the first transition.          *)
C15_StrideUpToLastIndex ==
    (Returned /\ ind_win > 1) =>
        \A f \in FishOf(df) :
            LET s == ind_win + (SetMin(Transitions(SortValues(df))) % ind_win)
            IN  KeptPositions(f) =
                    {p \in 0..(CountFish(df, f) - 1) :
                        p >= s /\ (p - s) % ind_win = 0}

(* Number of dark-to-light steps among the first r + 1 rows of the file. *)
RisingEdges(r) ==
    Cardinality({k \in 1..r :
        /\ ~(bfile.rows[k].CLOCK < LightThreshold)
        /\ bfile.rows[k + 1].CLOCK < LightThreshold})

(* C14: load_perl_processed_activity returns, for every row sequence, a    *)
(* table whose light is CLOCK < 14 and whose day at row r of the file is   *)
(* the number of dark-to-light steps up to r, also when there is none.     *)
C14_DayCountsRisingEdges ==
    (pc \in {"loaded_b", "IndexError"}) =>
        /\ pc = "loaded_b"
        /\ \A i \in 1..Len(df_b) :
              LET r == ((i - 1) % Len(bfile.rows)) + 1
              IN  /\ df_b[i].CLOCK = bfile.rows[r].CLOCK
                  /\ df_b[i].light = (df_b[i].CLOCK < LightThreshold)
                  /\ df_b[i].day = RisingEdges(r - 1)

(* C12: a table load_data returns has light true exactly for the rows with *)
(* lights_on <= clock time < lights_off, and none is returned for a        *)
(* lights_off earlier than lights_on (the call fails instead).             *)
C12_LightWindowChecked ==
    pc = "loaded_a" =>
        /\ \A i \in 1..Len(df_a) :
              df_a[i].light <=>
                  /\ lights_on <= df_a[i].time % HoursPerDay
                  /\ df_a[i].time % HoursPerDay < lights_off
        /\ ~(lights_off < lights_on)

====
